---------------------------- MODULE Spec2Model ----------------------------
(***************************************************************************)
(* Model of DigitalOceanAgentClient (src/bot/do_agent.py): the token       *)
(* bucket (_acquire_token), the cooldown gate (_register_cooldown), the    *)
(* retry loop (_request_with_retries, _sleep_backoff) and the two facade   *)
(* operations (create_session, send_message) run by concurrent callers.    *)
(*                                                                         *)
(* Time is the event loop's monotonic clock, counted in ticks.  Every      *)
(* duration (hints, cooldowns, backoff) is a number of ticks; a sleep of d *)
(* started at tick t ends at the first tick >= t + d or later, as          *)
(* asyncio.sleep does.  Tokens are real numbers in the code; here they are *)
(* counted in units of 1/TokenScale token, and the refill rate in units    *)
(* per tick, so that refill and wait arithmetic is exact.                  *)
(*                                                                         *)
(* asyncio is cooperative: a coroutine runs without interleaving from one  *)
(* await that suspends to the next.  Each action below is one such run.    *)
(* _rate_lock is only ever held inside such a run (no await that suspends  *)
(* lies inside its critical sections), so it is free in every state and    *)
(* taking it never suspends; _lock is held across suspensions and is       *)
(* modelled with its FIFO queue of waiters.                                *)
(***************************************************************************)
EXTENDS Integers, Sequences, FiniteSets, TLC

\* ---------------------------------------------------------------- bounds
NumCallers == 2          \* concurrent callers of the client
MaxTime == 3             \* the clock runs from 0 to MaxTime ticks
MaxRetries == 1          \* max_retries is drawn from {0, MaxRetries}
MaxBurst == 2            \* rate_burst is drawn from {1, MaxBurst}
MaxCooldown == 2         \* rate_cooldown is drawn from {0, MaxCooldown}
MaxHint == 3             \* largest Retry-After value a 429 carries
TokenScale == 2          \* token units per whole token
RateQps == 1             \* rate_qps, in token units per tick
BaseBackoff == 1         \* base_backoff, in ticks
MaxBackoff == 3          \* max_backoff, in ticks

\* ------------------------------------------------------ program constants
MinSleep == 1            \* max(wait_seconds, 0.01): the shortest sleep, rounded up to a tick
NoRateWait == 2          \* the 1.0 s wait used when rate_qps <= 0, in ticks
TooManyRequests == 429
JitterDen == 10          \* jitter = to_sleep * 0.1 * random()

Callers == 1..NumCallers
NoOne == 0
None == -1               \* Python's None for an Optional[float]

Min(a, b) == IF a < b THEN a ELSE b
Max(a, b) == IF a > b THEN a ELSE b
CeilDiv(a, b) == (a + b - 1) \div b
RECURSIVE Pow2(_)
Pow2(n) == IF n <= 0 THEN 1 ELSE 2 * Pow2(n - 1)
Count(s, x) == Cardinality({i \in 1..Len(s) : s[i] = x})

VARIABLES
  now,                  \* loop.time()
  max_retries,          \* self._max_retries
  rate_burst,           \* self._rate_burst (whole tokens)
  default_retry_after,  \* self._default_retry_after
  use_endpoint,         \* self._use_endpoint
  tokens,               \* self._tokens (token units)
  last_refill,          \* self._last_refill
  cooldown_until,       \* self._cooldown_until
  lock,                 \* holder of self._lock, or NoOne
  lock_waiters,         \* FIFO queue of callers waiting for self._lock
  pc,                   \* where each caller is
  op,                   \* the facade operation each caller runs
  attempt,              \* the loop variable of _request_with_retries
  wake,                 \* the deadline of the sleep a caller is in
  result,               \* how each caller's logical call ended
  last_resp,            \* resp / exc: what each caller's latest attempt produced
  last_hint,            \* retry_after: the hint of the latest _register_cooldown call
  last_exc,             \* last_exc is not None (line 190, 217)
  debits,               \* history: callers in the order tokens were debited
  debit_at,             \* history, kept under TimedSpec: the time of each debit
  requests,             \* history: callers in the order HTTP requests were issued
  resume_max,           \* history: the largest now + hint over all violations registered
  arg,                  \* the arguments of a function evaluated on its own
  ret                   \* what that function returned or raised

config == <<max_retries, rate_burst, default_retry_after, use_endpoint>>
limiter == <<tokens, last_refill, cooldown_until>>
outcome == <<result, last_resp, last_exc>>
history == <<debits, debit_at, requests, resume_max, last_hint>>
evaluation == <<arg, ret>>
vars ==
  <<now, config, limiter, lock, lock_waiters, pc, op, attempt, wake, outcome, history,
    evaluation>>


\* ------------------------------------------------------------ responses
\* What one HTTP attempt can produce: a response with a status, a Retry-After
\* header and a body, or a transport-level error (httpx.HTTPError).
PlainHeader == [form |-> "absent", val |-> 0]
PlainBody == [found |-> FALSE, val |-> 0]
Headers ==
  {[form |-> "absent", val |-> 0], [form |-> "garbage", val |-> 0]}
    \cup {[form |-> "seconds", val |-> v] : v \in {-1, 0, 1, MaxHint}}
    \cup {[form |-> "date", val |-> v] : v \in {-1, MaxHint - 1}}
Bodies ==
  {[found |-> FALSE, val |-> 0]} \cup {[found |-> TRUE, val |-> v] : v \in {0, 2}}
\* A 429 carries any header with a body without hint, or a body with a hint
\* under a header that gives none or under one that gives the largest.
Hinted ==
  {[header |-> h, body |-> PlainBody] : h \in Headers}
    \cup {[header |-> h, body |-> b] :
            h \in {PlainHeader, [form |-> "garbage", val |-> 0],
                    [form |-> "seconds", val |-> MaxHint]},
            b \in Bodies \ {PlainBody}}
Responses ==
  {[kind |-> "response", status |-> s, header |-> PlainHeader, body |-> PlainBody] : s \in {200, 500}}
    \cup {[kind |-> "response", status |-> TooManyRequests, header |-> x.header, body |-> x.body] :
            x \in Hinted}
    \cup {[kind |-> "error", status |-> 0, header |-> PlainHeader, body |-> PlainBody]}

\* _parse_retry_after_header: no header -> None; a number of seconds, or an
\* HTTP date val ticks from the wall clock's now -> max(0, val); else None.
ParseRetryAfterHeader(h) ==
  CASE h.form = "absent" -> None
    [] h.form = "seconds" -> Max(0, h.val)
    [] h.form = "date" -> Max(0, h.val)
    [] OTHER -> None

\* _extract_retry_after_from_body: the first candidate path that resolves to a
\* number gives max(0, value); found says whether there is one.
ExtractRetryAfterFromBody(b) == IF b.found THEN Max(0, b.val) ELSE None

\* The hint _request_with_retries passes on: the header's, else the body's.
RetryAfterOf(r) ==
  IF ParseRetryAfterHeader(r.header) # None
    THEN ParseRetryAfterHeader(r.header)
    ELSE ExtractRetryAfterFromBody(r.body)

\* ------------------------------------------------------------ cooldown gate
\* The hint a violation counts with in the history: the configured default
\* stands in for a hint that is missing or zero.
HintOrDefault(h) == IF h = None \/ h = 0 THEN default_retry_after ELSE h

\* _register_cooldown, lines 364-371: the wait a hint stands for.
EffectiveWait(retry_after) ==
  IF retry_after = None \/ retry_after = 0 THEN default_retry_after ELSE retry_after

\* Mutant of CooldownTarget: the target is the wait, not now + wait.
CooldownTargetNoNow(wait) ==
  IF wait > cooldown_until THEN wait ELSE cooldown_until

\* _register_cooldown, lines 377-379: the new resume-after timestamp.
CooldownTarget(wait) ==
  IF now + wait > cooldown_until THEN now + wait ELSE cooldown_until

\* Mutant of TokensAfterViolation: the tokens are not dropped.
TokensKept == tokens

\* _register_cooldown, line 382: the token count after a violation.
TokensAfterViolation == 0

\* Mutant of RegisterCooldown: the refill is counted from the end of the
\* cooldown, not from the violation.
RegisterCooldownFromExpiry(retry_after) ==
  LET wait == EffectiveWait(retry_after) IN
    IF wait <= 0
      THEN [tokens |-> tokens, last_refill |-> last_refill, cooldown_until |-> cooldown_until]
      ELSE [tokens |-> TokensAfterViolation, last_refill |-> CooldownTarget(wait),
            cooldown_until |-> CooldownTarget(wait)]

\* _register_cooldown as a whole: the limiter state it leaves.
RegisterCooldown(retry_after) ==
  LET wait == EffectiveWait(retry_after) IN
    IF wait <= 0
      THEN [tokens |-> tokens, last_refill |-> last_refill, cooldown_until |-> cooldown_until]
      ELSE [tokens |-> TokensAfterViolation, last_refill |-> now,
            cooldown_until |-> CooldownTarget(wait)]

\* ------------------------------------------------------------ token bucket
\* Mutant of Refilled: the elapsed time is consumed, its tokens are not added.
RefilledForgets ==
  LET elapsed == Max(0, now - last_refill)
  IN  IF elapsed > 0
        THEN [tokens |-> tokens, last_refill |-> now]
        ELSE [tokens |-> tokens, last_refill |-> last_refill]

\* Mutant of Refilled: the refill is not capped at the burst capacity.
RefilledNoCap ==
  LET elapsed == Max(0, now - last_refill)
  IN  IF elapsed > 0
        THEN [tokens |-> tokens + elapsed * RateQps, last_refill |-> now]
        ELSE [tokens |-> tokens, last_refill |-> last_refill]

\* _acquire_token, lines 240-245: the bucket after the refill at time now.
Refilled ==
  LET elapsed == Max(0, now - last_refill)
      refill == elapsed * RateQps
  IN  IF elapsed > 0
        THEN [tokens |-> IF refill > 0 THEN Min(rate_burst * TokenScale, tokens + refill)
                                       ELSE tokens,
              last_refill |-> now]
        ELSE [tokens |-> tokens, last_refill |-> last_refill]

\* Mutant of HasToken: a part of a token is taken for a whole one.
HasTokenPartial(tok) == tok >= 1

\* _acquire_token, line 247: a whole token is there.
HasToken(tok) == tok >= TokenScale

\* Mutant of InCooldown: the cooldown only holds back a caller the bucket
\* has no token for.
InCooldownUnlessToken == now < cooldown_until /\ ~HasToken(Refilled.tokens)

\* _acquire_token, line 237: the gate checked before any refill.
InCooldown == now < cooldown_until

\* _acquire_token, lines 251-254: the wait for the missing part of a token.
TokenWait(tok) ==
  IF RateQps > 0 THEN CeilDiv(TokenScale - tok, RateQps) ELSE NoRateWait

\* _acquire_token, line 238: the wait while in cooldown.
CooldownWait == cooldown_until - now

\* _acquire_token, line 256: when the sleep ends.
SleepUntil(wait_seconds) == now + Max(wait_seconds, MinSleep)

\* ------------------------------------------------------------ backoff
\* Mutant of BackoffDelay: the delay is not capped at max_backoff.
BackoffDelayNoCap(k, retry_after) ==
  IF retry_after # None /\ retry_after > 0
    THEN retry_after
    ELSE BaseBackoff * Pow2(k)

\* _sleep_backoff, lines 175-178: the delay before jitter.
BackoffDelay(k, retry_after) ==
  IF retry_after # None /\ retry_after > 0
    THEN Min(retry_after, MaxBackoff)
    ELSE Min(BaseBackoff * Pow2(k), MaxBackoff)

\* _sleep_backoff, line 180: the jitters random() can give, in 1/JitterDen ticks.
Jitters(to_sleep) == 0..(to_sleep - 1)

\* _sleep_backoff, line 181: the delay with its jitter, in 1/JitterDen ticks.
JitteredDelay(to_sleep, jitter) == to_sleep * JitterDen + jitter

\* _sleep_backoff, lines 181-183: the tick at which the sleep ends.
BackoffWakeAt(to_sleep, jitter) == now + CeilDiv(to_sleep * JitterDen + jitter, JitterDen)

\* Mutant of Exhausted: one attempt too many.
ExhaustedOffByOne(a) == a > max_retries

\* _request_with_retries, lines 212 and 220: the retry budget is used up.
Exhausted(a) == a >= max_retries

\* _request_with_retries, line 191: the last value of the loop variable.
LastAttempt == Max(1, max_retries)


\* ------------------------------------------------------------ state
Ops == {"create_session", "send_message"}
NoResponse == [kind |-> "none", status |-> 0]
TransportError == [kind |-> "error", status |-> 0]
Received(r) == [kind |-> "response", status |-> r.status]

\* A caller is inside _request_with_retries.
InCall == {"acquire", "acq_sleep", "send", "in_flight", "backoff"}
\* A caller is running, not suspended: its next step takes no time.
Running == {"acquire", "send"}

\* No function is being evaluated on its own.
NotEvaluated == [fn |-> "none"]

\* __init__, lines 53-74: a full bucket, no cooldown, both locks free.
Constructed ==
  /\ now = 0
  /\ max_retries \in {0, MaxRetries}
  /\ rate_burst \in {1, MaxBurst}
  /\ default_retry_after \in {0, MaxCooldown}
  /\ use_endpoint \in BOOLEAN
  /\ tokens = rate_burst * TokenScale
  /\ last_refill = now
  /\ cooldown_until = 0
  /\ lock = NoOne
  /\ lock_waiters = <<>>
  /\ pc = [c \in Callers |-> "idle"]
  /\ op = [c \in Callers |-> "create_session"]
  /\ attempt = [c \in Callers |-> 0]
  /\ wake = [c \in Callers |-> 0]
  /\ result = [c \in Callers |-> "none"]
  /\ last_resp = [c \in Callers |-> NoResponse]
  /\ last_exc = [c \in Callers |-> FALSE]
  /\ debits = <<>>
  /\ debit_at = <<>>
  /\ requests = <<>>
  /\ resume_max = 0
  /\ last_hint = None

\* The client after construction, with callers still to come.
Init ==
  /\ Constructed
  /\ arg = NotEvaluated
  /\ ret = NotEvaluated

\* The monotonic clock advances, while no coroutine is in the middle of a run
\* and some call is still to start or to end.
Tick ==
  /\ now < MaxTime
  /\ \A c \in Callers : pc[c] \notin Running
  /\ \E c \in Callers : pc[c] # "done"
  /\ now' = now + 1
  /\ UNCHANGED <<config, limiter, lock, lock_waiters, pc, op, attempt, wake, outcome, history,
                 evaluation>>

\* Mutant of LocalSession: the local handle is made holding _lock.
LocalSessionLocked(c) ==
  /\ pc' = [pc EXCEPT ![c] = "done"]
  /\ result' = [result EXCEPT ![c] = "local_sid"]
  /\ lock' = c
  /\ UNCHANGED lock_waiters

\* create_session, lines 90-95, in direct-endpoint mode: a local handle, at once.
LocalSession(c) ==
  /\ pc' = [pc EXCEPT ![c] = "done"]
  /\ result' = [result EXCEPT ![c] = "local_sid"]
  /\ UNCHANGED <<lock, lock_waiters>>

\* Mutant of EnterLock: the caller goes on without waiting for the lock.
EnterLockNoWait(c) ==
  /\ lock' = c
  /\ pc' = [pc EXCEPT ![c] = "acquire"]
  /\ UNCHANGED <<lock_waiters, result>>

\* async with self._lock (lines 100, 126, 140): asyncio.Lock.acquire takes a
\* free lock nobody queues for, and otherwise queues the caller.
EnterLock(c) ==
  /\ IF lock = NoOne /\ lock_waiters = <<>>
       THEN /\ lock' = c
            /\ pc' = [pc EXCEPT ![c] = "acquire"]
            /\ UNCHANGED lock_waiters
       ELSE /\ lock_waiters' = Append(lock_waiters, c)
            /\ pc' = [pc EXCEPT ![c] = "wait_lock"]
            /\ UNCHANGED lock
  /\ UNCHANGED result

\* A caller starts create_session (lines 88-101) or send_message (lines 114-143).
\* Callers are interchangeable: they are numbered in the order of their calls.
Call(c, o) ==
  /\ pc[c] = "idle"
  /\ \A d \in Callers : d < c => pc[d] # "idle"
  /\ op' = [op EXCEPT ![c] = o]
  /\ IF o = "create_session" /\ use_endpoint THEN LocalSession(c) ELSE EnterLock(c)
  /\ UNCHANGED <<now, config, limiter, attempt, wake, last_resp, last_exc, history,
                 evaluation>>

\* Mutant of LockGranted: the head of the queue gets a lock that is still held.
LockGrantedEarly(c) ==
  /\ pc[c] = "wait_lock"
  /\ lock_waiters # <<>> /\ Head(lock_waiters) = c
  /\ lock' = c
  /\ lock_waiters' = Tail(lock_waiters)
  /\ pc' = [pc EXCEPT ![c] = "acquire"]
  /\ UNCHANGED <<now, config, limiter, op, attempt, wake, outcome, history, evaluation>>

\* asyncio.Lock of line 61: a released lock goes to the head of the queue.
LockGranted(c) ==
  /\ pc[c] = "wait_lock"
  /\ lock = NoOne
  /\ lock_waiters # <<>> /\ Head(lock_waiters) = c
  /\ lock' = c
  /\ lock_waiters' = Tail(lock_waiters)
  /\ pc' = [pc EXCEPT ![c] = "acquire"]
  /\ UNCHANGED <<now, config, limiter, op, attempt, wake, outcome, history, evaluation>>

\* _acquire_token, lines 233-256: one pass of the while loop, entered from the
\* call or from the end of the sleep of the pass before.
TokenPass(c) ==
  /\ pc[c] = "acquire" \/ (pc[c] = "acq_sleep" /\ now >= wake[c])
  /\ IF InCooldown
       THEN /\ wake' = [wake EXCEPT ![c] = SleepUntil(CooldownWait)]
            /\ pc' = [pc EXCEPT ![c] = "acq_sleep"]
            /\ UNCHANGED <<limiter, debits>>
       ELSE IF HasToken(Refilled.tokens)
         THEN /\ tokens' = Refilled.tokens - TokenScale
              /\ last_refill' = Refilled.last_refill
              /\ pc' = [pc EXCEPT ![c] = "send"]
              /\ debits' = Append(debits, c)
              /\ wake' = [wake EXCEPT ![c] = 0]
              /\ UNCHANGED cooldown_until
         ELSE /\ tokens' = Refilled.tokens
              /\ last_refill' = Refilled.last_refill
              /\ wake' = [wake EXCEPT ![c] = SleepUntil(TokenWait(Refilled.tokens))]
              /\ pc' = [pc EXCEPT ![c] = "acq_sleep"]
              /\ UNCHANGED <<cooldown_until, debits>>
  /\ UNCHANGED <<now, config, lock, lock_waiters, op, attempt, outcome, requests, resume_max,
                 last_hint, evaluation>>

\* The pass, with no record of the time of the debit.
AcquireToken(c) == TokenPass(c) /\ UNCHANGED debit_at

\* _request_with_retries, line 195: the attempt's HTTP request goes out.
SendRequest(c) ==
  /\ pc[c] = "send"
  /\ pc' = [pc EXCEPT ![c] = "in_flight"]
  /\ requests' = Append(requests, c)
  /\ UNCHANGED <<now, config, limiter, lock, lock_waiters, op, attempt, wake, outcome,
                 debits, debit_at, resume_max, last_hint, evaluation>>

\* The end of _request_with_retries (return or raise) and of the async with
\* block around it: the lock is released.
Finish(c, how) ==
  /\ pc' = [pc EXCEPT ![c] = "done"]
  /\ result' = [result EXCEPT ![c] = how]
  /\ lock' = NoOne
  /\ UNCHANGED wake

\* Mutant of SleepBackoff: _lock is given up for the time of the sleep.
SleepBackoffUnlocked(c, k, retry_after) ==
  /\ \E j \in Jitters(BackoffDelay(k, retry_after)) :
       wake' = [wake EXCEPT ![c] = BackoffWakeAt(BackoffDelay(k, retry_after), j)]
  /\ pc' = [pc EXCEPT ![c] = "backoff"]
  /\ lock' = NoOne
  /\ UNCHANGED result

\* _sleep_backoff, lines 171-183: sleep the delay plus jitter.
SleepBackoff(c, k, retry_after) ==
  /\ \E j \in Jitters(BackoffDelay(k, retry_after)) :
       wake' = [wake EXCEPT ![c] = BackoffWakeAt(BackoffDelay(k, retry_after), j)]
  /\ pc' = [pc EXCEPT ![c] = "backoff"]
  /\ UNCHANGED <<lock, result>>

\* Mutant of OnOther: a 5xx status is retried like a 429, without a cooldown.
OnOtherRetry5xx(c, r) ==
  /\ IF r.status >= 500 /\ ~Exhausted(attempt[c])
       THEN SleepBackoff(c, attempt[c] + 1, None)
       ELSE Finish(c, "returned")
  /\ UNCHANGED <<limiter, resume_max, last_hint, last_exc>>

\* _request_with_retries, lines 197-198: any status but 429 is returned.
OnOther(c, r) ==
  /\ Finish(c, "returned")
  /\ UNCHANGED <<limiter, resume_max, last_hint, last_exc>>

\* Mutant of On429: the budget is checked first, and the 429 that is returned
\* registers no cooldown.
On429BudgetFirst(c, r) ==
  /\ IF Exhausted(attempt[c])
       THEN /\ Finish(c, "returned")
            /\ UNCHANGED <<limiter, resume_max>>
       ELSE /\ tokens' = RegisterCooldown(RetryAfterOf(r)).tokens
            /\ last_refill' = RegisterCooldown(RetryAfterOf(r)).last_refill
            /\ cooldown_until' = RegisterCooldown(RetryAfterOf(r)).cooldown_until
            /\ resume_max' = Max(resume_max, now + HintOrDefault(RetryAfterOf(r)))
            /\ SleepBackoff(c, attempt[c] + 1, RetryAfterOf(r))
  /\ last_hint' = RetryAfterOf(r)
  /\ UNCHANGED last_exc

\* Mutant of On429: a 429 is retried whatever the budget, line 212 left out.
On429AlwaysRetry(c, r) ==
  /\ tokens' = RegisterCooldown(RetryAfterOf(r)).tokens
  /\ last_refill' = RegisterCooldown(RetryAfterOf(r)).last_refill
  /\ cooldown_until' = RegisterCooldown(RetryAfterOf(r)).cooldown_until
  /\ resume_max' = Max(resume_max, now + HintOrDefault(RetryAfterOf(r)))
  /\ last_hint' = RetryAfterOf(r)
  /\ SleepBackoff(c, attempt[c] + 1, RetryAfterOf(r))
  /\ UNCHANGED last_exc

\* _request_with_retries, lines 200-215: a 429 registers a cooldown, then is
\* returned if the budget is used up and retried after a backoff otherwise.
On429(c, r) ==
  /\ tokens' = RegisterCooldown(RetryAfterOf(r)).tokens
  /\ last_refill' = RegisterCooldown(RetryAfterOf(r)).last_refill
  /\ cooldown_until' = RegisterCooldown(RetryAfterOf(r)).cooldown_until
  /\ resume_max' = Max(resume_max, now + HintOrDefault(RetryAfterOf(r)))
  /\ last_hint' = RetryAfterOf(r)
  /\ IF Exhausted(attempt[c])
       THEN Finish(c, "returned")
       ELSE SleepBackoff(c, attempt[c] + 1, RetryAfterOf(r))
  /\ UNCHANGED last_exc

\* Mutant of OnTransportError: the last transport error is swallowed.
OnTransportErrorReturned(c) ==
  /\ last_exc' = [last_exc EXCEPT ![c] = TRUE]
  /\ IF Exhausted(attempt[c])
       THEN Finish(c, "returned")
       ELSE SleepBackoff(c, attempt[c] + 1, None)
  /\ UNCHANGED <<limiter, resume_max, last_hint>>

\* _request_with_retries, lines 216-223: a transport error is raised if the
\* budget is used up and retried after a backoff otherwise.
OnTransportError(c) ==
  /\ last_exc' = [last_exc EXCEPT ![c] = TRUE]
  /\ IF Exhausted(attempt[c])
       THEN Finish(c, "raised")
       ELSE SleepBackoff(c, attempt[c] + 1, None)
  /\ UNCHANGED <<limiter, resume_max, last_hint>>

\* _request_with_retries, lines 195-223: the attempt's outcome arrives.
Response(c, r) ==
  /\ pc[c] = "in_flight"
  /\ last_resp' = [last_resp EXCEPT ![c] = IF r.kind = "error" THEN TransportError
                                           ELSE Received(r)]
  /\ IF r.kind = "error" THEN OnTransportError(c)
     ELSE IF r.status # TooManyRequests THEN OnOther(c, r)
     ELSE On429(c, r)
  /\ UNCHANGED <<now, config, lock_waiters, op, attempt, debits, debit_at, requests,
                 evaluation>>

\* Mutant of NextAttempt: the retry goes out without a token of its own.
NextAttemptNoAcquire(c) ==
  /\ pc[c] = "backoff"
  /\ now >= wake[c]
  /\ attempt' = [attempt EXCEPT ![c] = attempt[c] + 1]
  /\ wake' = [wake EXCEPT ![c] = 0]
  /\ pc' = [pc EXCEPT ![c] = "send"]
  /\ UNCHANGED <<now, config, limiter, lock, lock_waiters, op, outcome, history, evaluation>>

\* _request_with_retries, lines 191 and 225-227: after the backoff sleep the
\* loop goes to its next attempt, or falls through when the range is used up.
NextAttempt(c) ==
  /\ pc[c] = "backoff"
  /\ now >= wake[c]
  /\ attempt' = [attempt EXCEPT ![c] = attempt[c] + 1]
  /\ wake' = [wake EXCEPT ![c] = 0]
  /\ IF attempt[c] + 1 <= LastAttempt
       THEN /\ pc' = [pc EXCEPT ![c] = "acquire"]
            /\ UNCHANGED <<lock, result>>
       ELSE /\ pc' = [pc EXCEPT ![c] = "done"]
            /\ result' = [result EXCEPT ![c] = IF last_exc[c] THEN "raised" ELSE "fell_through"]
            /\ lock' = NoOne
  /\ UNCHANGED <<now, config, limiter, lock_waiters, op, last_resp, last_exc, history,
                 evaluation>>

Next ==
  \/ Tick
  \/ \E c \in Callers, o \in Ops : Call(c, o)
  \/ \E c \in Callers : LockGranted(c)
  \/ \E c \in Callers : AcquireToken(c)
  \/ \E c \in Callers : SendRequest(c)
  \/ \E c \in Callers, r \in Responses : Response(c, r)
  \/ \E c \in Callers : NextAttempt(c)

Spec == Init /\ [][Next]_vars

\* The same client, with the time of every debit kept as history.
AcquireTokenTimed(c) ==
  /\ TokenPass(c)
  /\ debit_at' = IF debits' # debits THEN Append(debit_at, now) ELSE debit_at

NextTimed ==
  \/ Tick
  \/ \E c \in Callers, o \in Ops : Call(c, o)
  \/ \E c \in Callers : LockGranted(c)
  \/ \E c \in Callers : AcquireTokenTimed(c)
  \/ \E c \in Callers : SendRequest(c)
  \/ \E c \in Callers, r \in Responses : Response(c, r)
  \/ \E c \in Callers : NextAttempt(c)

TimedSpec == Init /\ [][NextTimed]_vars

\* The event loop runs every coroutine that is ready (its ready queue is
\* FIFO, and no step of the client blocks the loop) and its clock advances:
\* a caller in _acquire_token that can run its next pass does run it, and
\* time passes while every caller that is still in a call is suspended.
LiveSpec ==
  /\ Spec
  /\ WF_vars(Tick)
  /\ \A c \in Callers : WF_vars(AcquireToken(c))

\* ------------------------------------------------------------ cancellation
\* The awaits a caller can be suspended at: asyncio.Lock.acquire (lines 100,
\* 126, 140), asyncio.sleep (lines 183, 256) and the request (line 195).
Suspended == {"wait_lock", "acq_sleep", "in_flight", "backoff"}

\* asyncio.Lock.acquire on CancelledError: the waiter leaves the queue.
Without(q, c) == SelectSeq(q, LAMBDA x : x # c)

\* Mutant of Cancel: a caller cancelled inside the async with block keeps _lock.
CancelKeepsLock(c) ==
  /\ pc[c] \in Suspended
  /\ pc' = [pc EXCEPT ![c] = "done"]
  /\ result' = [result EXCEPT ![c] = "cancelled"]
  /\ wake' = [wake EXCEPT ![c] = 0]
  /\ lock_waiters' = Without(lock_waiters, c)
  /\ UNCHANGED <<now, config, limiter, lock, op, attempt, last_resp, last_exc, history,
                 evaluation>>

\* The caller's task is cancelled: CancelledError is raised at the await the
\* caller is suspended at.  It is no httpx.HTTPError, so the except clause of
\* line 216 lets it pass; _acquire_token sleeps (line 256) after it has left
\* the async with self._rate_lock block; the async with self._lock block of
\* the facade releases _lock on the way out.
Cancel(c) ==
  /\ pc[c] \in Suspended
  /\ pc' = [pc EXCEPT ![c] = "done"]
  /\ result' = [result EXCEPT ![c] = "cancelled"]
  /\ wake' = [wake EXCEPT ![c] = 0]
  /\ IF pc[c] = "wait_lock"
       THEN /\ lock_waiters' = Without(lock_waiters, c)
            /\ UNCHANGED lock
       ELSE /\ lock' = NoOne
            /\ UNCHANGED lock_waiters
  /\ UNCHANGED <<now, config, limiter, op, attempt, last_resp, last_exc, history, evaluation>>

\* The client with callers whose tasks may be cancelled.
NextCancel ==
  \/ Next
  \/ \E c \in Callers : Cancel(c)

CancelSpec == Init /\ [][NextCancel]_vars


\* ------------------------------------------- functions evaluated on their own
\* The functions of the client whose result depends on their arguments alone
\* are evaluated on arguments drawn from bounded sets: arg holds the
\* arguments, ret what the function returned or raised.  The client itself
\* stays as constructed.

\* _sleep_backoff(attempt, retry_after): attempt is the number of the failed
\* attempt, from 1 (lines 214, 222); retry_after is None or a hint in ticks.
BackoffArgs ==
  {[fn |-> "_sleep_backoff", attempt |-> k, retry_after |-> h] :
     k \in 1..(MaxRetries + 1), h \in {None} \cup 0..(MaxHint + 1)}

\* _sleep_backoff, lines 171-183: the delay before jitter and the time slept.
EvalSleepBackoff ==
  /\ arg.fn = "_sleep_backoff"
  /\ ret = NotEvaluated
  /\ \E jitter \in Jitters(BackoffDelay(arg.attempt, arg.retry_after)) :
       ret' = [to_sleep |-> BackoffDelay(arg.attempt, arg.retry_after),
               slept |-> JitteredDelay(BackoffDelay(arg.attempt, arg.retry_after), jitter)]
  /\ UNCHANGED <<now, config, limiter, lock, lock_waiters, pc, op, attempt, wake, outcome,
                 history, arg>>

\* A decoded JSON body (response.json(), line 167): a string, a number, null
\* (Python's None), an object (a dict) or an array (a list).
Str(s) == [str |-> s]
Num(n) == [num |-> n]
Null == [null |-> TRUE]
Dict(f) == [dict |-> f]
List(q) == [list |-> q]
IsStr(v) == "str" \in DOMAIN v
IsNum(v) == "num" \in DOMAIN v
IsDict(v) == "dict" \in DOMAIN v
IsList(v) == "list" \in DOMAIN v

\* A dict without keys, and the dicts with key k or without it.
NoKeys == [k \in {} |-> Null]
Optional(k, values) == {NoKeys} \cup {k :> v : v \in values}

\* dict.get(key) and dict.get(key, default).
GetOr(d, key, default) == IF key \in DOMAIN d.dict THEN d.dict[key] ELSE default
Get(d, key) == GetOr(d, key, Null)

\* Python's truth value, as the operators or and not take it.
Truthy(v) ==
  CASE IsStr(v) -> v.str # ""
    [] IsNum(v) -> v.num # 0
    [] IsDict(v) -> DOMAIN v.dict # {}
    [] IsList(v) -> v.list # <<>>
    [] OTHER -> FALSE

\* str(v): a string is itself, any other value is its rendering.
Text(v) == IF IsStr(v) THEN v ELSE [repr |-> v]

\* How a function ends.
Returns(v) == [returns |-> v]
Raises(e) == [raises |-> e]

\* Mutant of HandleResponse: only a server error is raised.
HandleResponseLenient(resp) ==
  IF resp.status < 500
    THEN Returns("data")
    ELSE [raises |-> "DigitalOceanAgentError", status |-> resp.status,
          detail |-> "_safe_json(response)"]

\* _handle_response, lines 148-163: raise_for_status passes a 2xx status, whose
\* decoded body is returned; any other status is raised as
\* DigitalOceanAgentError with the status and the decoded body in its message.
HandleResponse(resp) ==
  IF resp.status >= 200 /\ resp.status < 300
    THEN Returns("data")
    ELSE [raises |-> "DigitalOceanAgentError", status |-> resp.status,
          detail |-> "_safe_json(response)"]

\* create_session (lines 100-102) and send_message (lines 126-130, 140-144):
\* what comes of the facade call once _request_with_retries has ended.  A
\* response goes to _handle_response, whose data the extraction then reads;
\* an exception of _request_with_retries leaves the facade as it is.
FacadeEnd(c) ==
  CASE result[c] = "returned" -> HandleResponse(last_resp[c])
    [] result[c] = "raised" -> Raises("httpx.HTTPError")
    [] result[c] = "fell_through" -> Raises("RuntimeError")
    [] result[c] = "cancelled" -> Raises("CancelledError")
    [] result[c] = "local_sid" -> Returns("sid")
    [] OTHER -> NotEvaluated

\* Bodies of a successful answer to create_session.
SessionBodies ==
  {Dict(a @@ b @@ c) :
     a \in Optional("session", {Null, Str("s"), Dict(NoKeys), Dict("id" :> Null),
                                Dict("id" :> Str("")), Dict("id" :> Str("session.id"))}),
     b \in Optional("id", {Str(""), Num(0), Num(7), Str("id")}),
     c \in Optional("session_id", {Null, Str("session_id")})}
    \cup {List(<<>>)}
SessionArgs == {[fn |-> "create_session", data |-> d] : d \in SessionBodies}

\* create_session, lines 103-112: the identifier taken from the body data.
\* .get on a value that is no dict raises AttributeError.
SessionIdOf(data) ==
  IF ~IsDict(data) THEN Raises("AttributeError")
  ELSE IF ~IsDict(GetOr(data, "session", Dict(NoKeys))) THEN Raises("AttributeError")
  ELSE LET nested == Get(GetOr(data, "session", Dict(NoKeys)), "id")
           session_id == IF Truthy(nested) THEN nested
                         ELSE IF Truthy(Get(data, "id")) THEN Get(data, "id")
                         ELSE Get(data, "session_id")
       IN  IF ~Truthy(session_id) THEN Raises("DigitalOceanAgentError")
           ELSE Returns(Text(session_id))

\* create_session, lines 102-112, on the body of a successful response.
EvalSessionId ==
  /\ arg.fn = "create_session"
  /\ ret = NotEvaluated
  /\ ret' = SessionIdOf(arg.data)
  /\ UNCHANGED <<now, config, limiter, lock, lock_waiters, pc, op, attempt, wake, outcome,
                 history, arg>>

\* Bodies of a successful answer to send_message.  The string a path can
\* lead to is the name of the path, so that a reply tells where it came from.
MessageValues(at) ==
  {Str("m"), Dict(NoKeys), Dict("content" :> Num(1)), Dict("content" :> Str(at))}
ChoicesValues ==
  {Null, List(<<>>), List(<<Str("c")>>)}
    \cup {List(<<Dict(m @@ t)>>) :
            m \in Optional("message", MessageValues("choices[0].message.content")),
            t \in Optional("text", {Num(1), Str("choices[0].text")})}
ResponseValues ==
  {Dict(o @@ t) :
     o \in Optional("output", {Num(1), Str("response.output")}),
     t \in Optional("output_text", {Str("response.output_text")})}
DataValues == {Dict("message" :> v) : v \in MessageValues("data.message.content")}
ReplyBodies ==
  {Dict(a @@ b @@ c @@ d) :
     a \in Optional("choices", ChoicesValues),
     b \in Optional("message", MessageValues("message.content")),
     c \in Optional("response", ResponseValues),
     d \in Optional("data", DataValues)}
    \cup {Str("body"), List(<<>>)}
ReplyArgs ==
  {[fn |-> "send_message", endpoint |-> e, data |-> d] : e \in BOOLEAN, d \in ReplyBodies}

\* _extract_reply_text, lines 299-304.
PossiblePaths ==
  << <<"message", "content">>, <<"response", "output">>, <<"response", "output_text">>,
     <<"data", "message", "content">> >>

\* _extract_reply_text, lines 307-312: the inner loop; NoNode stands for the
\* break that skips the else branch.
NoNode == [broke |-> TRUE]
RECURSIVE Walk(_, _)
Walk(node, path) ==
  IF path = <<>> THEN node
  ELSE IF IsDict(node) /\ Head(path) \in DOMAIN node.dict
    THEN Walk(node.dict[Head(path)], Tail(path))
    ELSE NoNode

\* _extract_reply_text, lines 305-316: the outer loop and the fallback.
RECURSIVE FirstString(_, _)
FirstString(data, paths) ==
  IF paths = <<>> THEN Text(data)
  ELSE IF IsStr(Walk(data, Head(paths))) THEN Walk(data, Head(paths))
  ELSE FirstString(data, Tail(paths))
ExtractReplyText(data) == FirstString(data, PossiblePaths)

\* Mutant of ExtractEndpointReplyText: text is tried before message.content.
ExtractEndpointTextFirst(data) ==
  IF ~IsDict(data) THEN ExtractReplyText(data)
  ELSE IF ~(IsList(Get(data, "choices")) /\ Get(data, "choices").list # <<>>)
    THEN ExtractReplyText(data)
  ELSE LET first == Get(data, "choices").list[1] IN
    IF ~IsDict(first) THEN ExtractReplyText(data)
    ELSE IF IsStr(Get(first, "text")) THEN Get(first, "text")
    ELSE IF IsDict(Get(first, "message")) /\ IsStr(Get(Get(first, "message"), "content"))
      THEN Get(Get(first, "message"), "content")
    ELSE ExtractReplyText(data)

\* _extract_endpoint_reply_text, lines 274-293.  An exception inside the try
\* block (.get on a value that is no dict) is swallowed at lines 290-291 and
\* leads to the fallback of line 293.
ExtractEndpointReplyText(data) ==
  IF ~IsDict(data) THEN ExtractReplyText(data)
  ELSE IF ~(IsList(Get(data, "choices")) /\ Get(data, "choices").list # <<>>)
    THEN ExtractReplyText(data)
  ELSE LET first == Get(data, "choices").list[1] IN
    IF ~IsDict(first) THEN ExtractReplyText(data)
    ELSE IF IsDict(Get(first, "message")) /\ IsStr(Get(Get(first, "message"), "content"))
      THEN Get(Get(first, "message"), "content")
    ELSE IF IsStr(Get(first, "text")) THEN Get(first, "text")
    ELSE ExtractReplyText(data)

\* send_message, lines 130-133 and 144-146, on the body of a successful
\* response: the message of the AgentResponse returned.
EvalReplyText ==
  /\ arg.fn = "send_message"
  /\ ret = NotEvaluated
  /\ ret' = Returns(IF arg.endpoint THEN ExtractEndpointReplyText(arg.data)
                                     ELSE ExtractReplyText(arg.data))
  /\ UNCHANGED <<now, config, limiter, lock, lock_waiters, pc, op, attempt, wake, outcome,
                 history, arg>>

\* How a call of the client can end for the chat layer (handlers.py): with its
\* result, with DigitalOceanAgentError (_handle_response, line 160;
\* create_session, line 109) or with the httpx.HTTPError that
\* _request_with_retries raises when its retries are used up (line 221).
ClientFaults == {"DigitalOceanAgentError", "httpx.HTTPError"}
ClientEnds == {"ok"} \cup ClientFaults

\* forward_message: whether user_data holds a session id, whether the text
\* is empty once stripped, and how create_session and send_message end if
\* they are called.
ForwardArgs ==
  {[fn |-> "forward_message", stored |-> s, empty |-> e, create |-> x, send |-> y] :
     s \in BOOLEAN, e \in BOOLEAN, x \in ClientEnds, y \in ClientEnds}

\* handlers.py, forward_message, lines 116-135, with _ensure_session and
\* _create_and_store_session, lines 142-153: the text replied to the user,
\* the exception that leaves the handler (error_handler, lines 138-139, only
\* logs it), and whether user_data holds a session id afterwards.
ForwardMessage(a) ==
  IF ~a.stored /\ a.create # "ok"
    THEN [reply |-> "none", raised |-> a.create, stored |-> FALSE]
  ELSE IF a.empty
    THEN [reply |-> "empty_notice", raised |-> "none", stored |-> TRUE]
  ELSE IF a.send = "ok"
    THEN [reply |-> "response.message", raised |-> "none", stored |-> TRUE]
  ELSE IF a.send = "DigitalOceanAgentError"
    THEN [reply |-> "apology", raised |-> "none", stored |-> TRUE]
  ELSE [reply |-> "none", raised |-> a.send, stored |-> TRUE]

EvalForwardMessage ==
  /\ arg.fn = "forward_message"
  /\ ret = NotEvaluated
  /\ ret' = ForwardMessage(arg)
  /\ UNCHANGED <<now, config, limiter, lock, lock_waiters, pc, op, attempt, wake, outcome,
                 history, arg>>

Arguments == BackoffArgs \cup SessionArgs \cup ReplyArgs \cup ForwardArgs

FunctionInit ==
  /\ Constructed
  /\ max_retries = MaxRetries
  /\ rate_burst = MaxBurst
  /\ default_retry_after = MaxCooldown
  /\ ~use_endpoint
  /\ arg \in Arguments
  /\ ret = NotEvaluated

FunctionNext ==
  \/ EvalSleepBackoff
  \/ EvalSessionId
  \/ EvalReplyText
  \/ EvalForwardMessage

FunctionSpec == FunctionInit /\ [][FunctionNext]_vars


\* ------------------------------------------------------------ claims
\* Steps, as seen from outside: caller c's attempt got its outcome, a 429, a
\* transport error; caller c ran one pass of _acquire_token; a token was debited.
Handled(c) == pc[c] = "in_flight" /\ pc'[c] # "in_flight"
Handled429(c) == Handled(c) /\ last_resp'[c] = [kind |-> "response", status |-> TooManyRequests]
HandledError(c) == Handled(c) /\ last_resp'[c].kind = "error"
AcquirePass(c) ==
  /\ pc[c] \in {"acquire", "acq_sleep"}
  /\ <<pc[c], wake[c]>> # <<pc'[c], wake'[c]>>
Debited == debits' # debits
Capacity == rate_burst * TokenScale

\* C1: in every reachable state the token count is within 0..burst capacity.
C1_TokensInRange == 0 <= tokens /\ tokens <= Capacity

\* C1 witness: after a violation was registered and time passed, a refill that
\* the capacity capped was followed by a debit.
C1_Witness ==
  /\ Len(debits) >= 2
  /\ cooldown_until > 0
  /\ last_refill >= cooldown_until + CeilDiv(Capacity, RateQps)
  /\ tokens = Capacity - TokenScale

\* C2: a pass of _acquire_token at a time now < cooldown_until debits nothing,
\* leaves the bucket alone and sleeps for the remaining cooldown; a token is
\* only ever debited at a time now >= cooldown_until; a caller leaves the sleep
\* only into another pass (to another sleep, or to the debit).
C2_CooldownGate ==
  [][/\ Debited => now >= cooldown_until
     /\ \A c \in Callers :
          /\ (AcquirePass(c) /\ now < cooldown_until) =>
               /\ pc'[c] = "acq_sleep"
               /\ wake'[c] = now + Max(cooldown_until - now, MinSleep)
               /\ UNCHANGED <<limiter, debits>>
          /\ (pc[c] = "acq_sleep" /\ pc'[c] # "acq_sleep") =>
               (pc'[c] = "send" /\ debits' = Append(debits, c))]_vars

\* C2 witness: a caller sleeps until the end of the cooldown at a time when the
\* refill alone would already give a whole token.
C2_Witness ==
  \E c \in Callers :
    /\ pc[c] = "acq_sleep"
    /\ now < cooldown_until
    /\ wake[c] = cooldown_until
    /\ HasToken(Refilled.tokens)

\* C3, as stated: cooldown_until equals the largest t + h over the violations
\* registered, h being the hint or, for a missing or zero hint, the default.
C3_Original == cooldown_until = resume_max

\* C3, amended: cooldown_until never decreases; a violation at time t whose
\* effective hint h is positive sets it to max(cooldown_until, t + h), and one
\* whose effective hint is zero leaves it unchanged.
C3_CooldownMonotone ==
  [][/\ cooldown_until' >= cooldown_until
     /\ \A c \in Callers :
          Handled429(c) =>
            cooldown_until' =
              IF HintOrDefault(last_hint') > 0
                THEN Max(cooldown_until, now + HintOrDefault(last_hint'))
                ELSE cooldown_until]_vars

\* C3 witness: two callers' violations were registered, the later one with a
\* positive hint, and cooldown_until is the largest t + h.
C3_Witness ==
  \E c, d \in Callers :
    /\ c # d
    /\ last_resp[c].status = TooManyRequests /\ pc[c] = "done"
    /\ last_resp[d].status = TooManyRequests /\ pc[d] = "done"
    /\ last_hint # None /\ last_hint > 0
    /\ cooldown_until = resume_max
    /\ cooldown_until = last_refill + last_hint

\* C4, as stated: every registration of a violation leaves the token count at zero.
C4_Original == [][\A c \in Callers : Handled429(c) => tokens' = 0]_vars

\* C4, amended: a registration whose effective wait (the hint, or the default
\* for a missing or zero hint) is positive leaves the token count at zero; one
\* whose effective wait is zero leaves the token count unchanged.
C4_TokensDropped ==
  [][\A c \in Callers :
       Handled429(c) =>
         tokens' = IF HintOrDefault(last_hint') > 0 THEN 0 ELSE tokens]_vars

\* C4 witness: the first request, sent with tokens left in the bucket, got a
\* 429 and the bucket is empty.
C4_Witness ==
  \E c \in Callers :
    /\ last_resp[c].status = TooManyRequests
    /\ pc[c] \in {"backoff", "done"}
    /\ rate_burst >= 2
    /\ debits = <<c>>
    /\ last_refill = now
    /\ cooldown_until > now
    /\ tokens = 0

\* C5: a call whose every attempt got a 429 makes exactly max_retries + 1
\* attempts and ends returning the 429 response, not raising.
C5_ExhaustedOn429 ==
  \A c \in Callers :
    (~last_exc[c] /\ last_resp[c].status = TooManyRequests) =>
      /\ Count(requests, c) <= max_retries + 1
      /\ result[c] \in {"none", "returned"}
      /\ pc[c] = "backoff" => Count(requests, c) <= max_retries
      /\ pc[c] = "done" => (result[c] = "returned" /\ Count(requests, c) = max_retries + 1)

\* C5 witness: a call with retries ended on its last 429.
C5_Witness ==
  \E c \in Callers :
    /\ max_retries >= 1
    /\ pc[c] = "done" /\ result[c] = "returned"
    /\ ~last_exc[c] /\ last_resp[c].status = TooManyRequests
    /\ Count(requests, c) = max_retries + 1

\* C6: a response whose status is not 429 ends the call at once with that
\* response: no sleep, no change of the limiter, and no request ever after.
C6_OtherStatusReturned ==
  [][\A c \in Callers :
       /\ (Handled(c) /\ last_resp'[c].kind = "response"
             /\ last_resp'[c].status # TooManyRequests) =>
            /\ pc'[c] = "done" /\ result'[c] = "returned"
            /\ UNCHANGED <<limiter, requests, debits, wake>>
       /\ pc[c] = "done" =>
            (pc'[c] = "done" /\ Count(requests', c) = Count(requests, c)
               /\ result'[c] = result[c])]_vars

\* C6 witness: an error status other than 429 was returned with retries left.
C6_Witness ==
  \E c \in Callers :
    /\ pc[c] = "done" /\ result[c] = "returned"
    /\ last_resp[c].status = 500
    /\ attempt[c] < max_retries

\* C7: a transport error never touches the limiter; with attempts left the
\* caller sleeps the exponential backoff (no hint) plus jitter and then goes to
\* its next attempt; on the last allowed attempt the error is raised.
C7_TransportError ==
  [][\A c \in Callers :
       /\ HandledError(c) =>
            /\ UNCHANGED <<limiter, resume_max, last_hint>>
            /\ IF attempt[c] < max_retries
                 THEN /\ pc'[c] = "backoff"
                      /\ result'[c] = result[c]
                      /\ wake'[c] >= now + Min(BaseBackoff * Pow2(attempt[c] + 1), MaxBackoff)
                      /\ wake'[c] <= now + Min(BaseBackoff * Pow2(attempt[c] + 1), MaxBackoff) + 1
                 ELSE pc'[c] = "done" /\ result'[c] = "raised"
       /\ (pc[c] = "backoff" /\ pc'[c] # "backoff") =>
            (pc'[c] = "acquire" /\ attempt'[c] = attempt[c] + 1)]_vars

\* C7 witness: a call retried after a transport error and then raised one.
C7_Witness ==
  \E c \in Callers :
    /\ max_retries >= 1
    /\ pc[c] = "done" /\ result[c] = "raised"
    /\ last_resp[c].kind = "error"
    /\ attempt[c] = max_retries

\* C8: every request a caller issued has its own debit before it: a caller's
\* requests never outnumber its debits, and a caller with a request out or
\* answered has debited exactly one token per attempt.
C8_DebitBeforeRequest ==
  /\ Len(requests) <= Len(debits)
  /\ \A c \in Callers :
       /\ Count(requests, c) <= Count(debits, c)
       /\ Count(debits, c) <= Count(requests, c) + 1
       /\ pc[c] = "send" => Count(debits, c) = attempt[c] + 1
       /\ pc[c] \in {"in_flight", "backoff"} =>
            (Count(requests, c) = attempt[c] + 1 /\ Count(debits, c) = attempt[c] + 1)

\* C8 witness: a retry's request is out, with a debit for each attempt.
C8_Witness ==
  \E c \in Callers :
    /\ pc[c] = "in_flight"
    /\ attempt[c] >= 1
    /\ Count(debits, c) = attempt[c] + 1

\* C9: a caller inside _request_with_retries holds _lock, so at most one caller
\* is between a debit and its request, and the requests go out in the order of
\* the debits.
C9_Serialized ==
  /\ \A c \in Callers : pc[c] \in InCall => lock = c
  /\ Cardinality({c \in Callers : pc[c] = "send"}) <= 1
  /\ Len(debits) <= Len(requests) + 1
  /\ Len(requests) <= Len(debits)
  /\ requests = SubSeq(debits, 1, Len(requests))

\* C9 witness: requests of two callers went out, and one caller is between its
\* debit and its request while another waits for the lock.
C9_Witness ==
  \E c, d \in Callers :
    /\ c # d
    /\ c \in {requests[i] : i \in 1..Len(requests)}
    /\ pc[c] = "send"
    /\ pc[d] = "wait_lock"

\* C10, as stated: while a caller is suspended in _acquire_token, the caller at
\* the head of the queue for _lock can go on to its own token acquisition.
C10_Original ==
  \A c, d \in Callers :
    (pc[c] = "acq_sleep" /\ pc[d] = "wait_lock" /\ Head(lock_waiters) = d) =>
      ENABLED LockGranted(d)

\* C10, amended: a caller suspended in _acquire_token keeps _lock, and no other
\* caller is inside _request_with_retries: the others have not called, wait
\* for _lock, or are done.
C10_OthersWait ==
  \A c, d \in Callers :
    (c # d /\ pc[c] = "acq_sleep") =>
      (lock = c /\ pc[d] \in {"idle", "wait_lock", "done"})

\* C10 witness: one caller sleeps in _acquire_token while another waits for _lock.
C10_Witness ==
  \E c, d \in Callers :
    /\ pc[c] = "acq_sleep" /\ now < wake[c]
    /\ pc[d] = "wait_lock"

\* The step cancels caller c.
Cancelled(c) == result[c] # "cancelled" /\ result'[c] = "cancelled"

\* C11: cancelling a caller that sleeps in _acquire_token or in the backoff
\* ends its call and changes nothing of the limiter: no token is debited by
\* the step, the cancelled acquisition has no debit of its own, and _lock is
\* released; at all times the token count is within 0..burst capacity, no
\* cancelled caller holds or queues for _lock, and whenever _lock is free the
\* caller at the head of the queue can take it.
C11_CancelLeavesLimiter ==
  /\ [][\A c \in Callers :
          (Cancelled(c) /\ pc[c] \in {"acq_sleep", "backoff"}) =>
            /\ UNCHANGED <<limiter, debits, requests>>
            /\ Count(debits, c) = Count(requests, c)
            /\ lock = c /\ lock' = NoOne
            /\ pc'[c] = "done"]_vars
  /\ [](/\ 0 <= tokens /\ tokens <= Capacity
        /\ \A c \in Callers :
             result[c] = "cancelled" =>
               (lock # c /\ \A i \in 1..Len(lock_waiters) : lock_waiters[i] # c)
        /\ (lock = NoOne /\ lock_waiters # <<>>) => ENABLED LockGranted(Head(lock_waiters)))

\* C11 witness: a caller was cancelled in the token wait of its retry, and the
\* other caller has debited a token since.
C11_Witness ==
  \E c, d \in Callers :
    /\ c # d
    /\ result[c] = "cancelled"
    /\ attempt[c] >= 1
    /\ Count(requests, c) = attempt[c] /\ Count(debits, c) = attempt[c]
    /\ pc[d] = "send"
    /\ debits[Len(debits)] = d

\* C12: the debits of any time window are bounded by the burst capacity plus
\* the refill of the window: of the debits in the order they were made, the
\* i-th to the j-th take j - i + 1 tokens, which is at most
\* burst + rate * (time of the j-th - time of the i-th).  With a burst of one
\* token, two debits in a row are at least one token's refill time apart.
C12_RateBound ==
  \A i, j \in 1..Len(debit_at) :
    i <= j =>
      /\ debit_at[i] <= debit_at[j]
      /\ (j - i + 1) * TokenScale <= Capacity + RateQps * (debit_at[j] - debit_at[i])

\* C12 witness: with a burst of one token, the second debit came exactly one
\* token's refill time after the first, from a caller that had to sleep for it.
C12_Witness ==
  /\ rate_burst = 1
  /\ Len(debit_at) = 2
  /\ debit_at[2] - debit_at[1] = CeilDiv(TokenScale, RateQps)
  /\ debit_at[1] = last_refill - CeilDiv(TokenScale, RateQps)
  /\ cooldown_until = 0

\* The time from which the limiter can give a token, if no violation is
\* registered before: the cooldown is over and the refill has made a whole token.
TokenDue ==
  Max(cooldown_until,
      IF tokens >= TokenScale THEN 0
      ELSE last_refill + CeilDiv(TokenScale - tokens, RateQps))

C14_BackoffBounds ==
  (arg.fn = "_sleep_backoff" /\ ret # NotEvaluated) =>
    /\ ret.to_sleep =
         IF arg.retry_after # None /\ arg.retry_after > 0
           THEN Min(arg.retry_after, MaxBackoff)
           ELSE Min(BaseBackoff * Pow2(arg.attempt), MaxBackoff)
    /\ ret.slept >= ret.to_sleep * JitterDen
    /\ (ret.slept - ret.to_sleep * JitterDen) * JitterDen <= ret.to_sleep * JitterDen
    /\ ret.slept <= MaxBackoff * (JitterDen + 1)

\* C14 witness: the sleep after the second failed attempt, without a hint,
\* was capped at max_backoff and slept with a jitter.
C14_Witness ==
  /\ arg.fn = "_sleep_backoff" /\ ret # NotEvaluated
  /\ arg.attempt = 2 /\ arg.retry_after = None
  /\ BaseBackoff * Pow2(arg.attempt) > MaxBackoff
  /\ ret.to_sleep = MaxBackoff
  /\ ret.slept > MaxBackoff * JitterDen

\* C15: the mode never changes; in direct-endpoint mode a create_session is
\* over in the step that starts it, with a local handle for result, and the
\* step leaves the limiter (tokens, refill time, cooldown), _lock and its
\* queue, and the debits and requests made so far as they were.
C15_LocalSessionFrame ==
  [][/\ use_endpoint' = use_endpoint
     /\ \A c \in Callers :
          (use_endpoint /\ pc[c] = "idle" /\ pc'[c] # "idle" /\ op'[c] = "create_session") =>
            /\ pc'[c] = "done" /\ result'[c] = "local_sid"
            /\ UNCHANGED <<limiter, lock, lock_waiters, history>>
            /\ Count(debits', c) = 0 /\ Count(requests', c) = 0]_vars

\* C15 witness: in direct-endpoint mode a create_session returned its local
\* handle while another caller held _lock, asleep in its backoff after a 429.
C15_Witness ==
  \E c, d \in Callers :
    /\ use_endpoint
    /\ op[c] = "create_session" /\ pc[c] = "done" /\ result[c] = "local_sid"
    /\ op[d] = "send_message" /\ pc[d] = "backoff" /\ lock = d
    /\ cooldown_until > now

\* Following a path of keys from a body: the value reached, or Broken where a
\* key is missing or the value on the way is no dict ("[0]" is the first
\* element of a list).
Broken == [broken |-> TRUE]
Step(node, key) ==
  IF key = "[0]"
    THEN IF IsList(node) /\ node.list # <<>> THEN node.list[1] ELSE Broken
    ELSE IF IsDict(node) /\ key \in DOMAIN node.dict THEN node.dict[key] ELSE Broken
RECURSIVE Traverse(_, _)
Traverse(node, path) ==
  IF path = <<>> THEN node ELSE Traverse(Step(node, Head(path)), Tail(path))
Least(S) == CHOOSE i \in S : \A j \in S : i <= j

\* C16, as stated: create_session returns the value at the first of the paths
\* session.id, id, session_id that is present in the body, as a string, and
\* raises DigitalOceanAgentError when none of the three is present.  A path
\* counts as present when it leads to a value that is not null, empty or zero:
\* the reading of "present" that agrees with the code wherever it can.
SessionIdPaths == << <<"session", "id">>, <<"id">>, <<"session_id">> >>
C16_Original ==
  (arg.fn = "create_session" /\ ret # NotEvaluated) =>
    LET present == {i \in 1..Len(SessionIdPaths) :
                      Truthy(Traverse(arg.data, SessionIdPaths[i]))}
    IN  IF present = {} THEN ret = Raises("DigitalOceanAgentError")
        ELSE ret = Returns(Text(Traverse(arg.data, SessionIdPaths[Least(present)])))

\* C16 witness: the body {"session": null, "id": "id"} ended create_session
\* with an AttributeError.
C16_Witness ==
  /\ arg.fn = "create_session"
  /\ arg.data = Dict(("session" :> Null) @@ ("id" :> Str("id")))
  /\ ret = Raises("AttributeError")

\* C17: the reply is the value of the first path, in the order of the list,
\* that leads to a string; the list is that of the session-based mode,
\* preceded in direct-endpoint mode by choices[0].message.content and
\* choices[0].text; when no path leads to a string, the reply is the whole
\* body as a string.
EndpointPaths ==
  << <<"choices", "[0]", "message", "content">>, <<"choices", "[0]", "text">> >>
SessionPaths ==
  << <<"message", "content">>, <<"response", "output">>, <<"response", "output_text">>,
     <<"data", "message", "content">> >>
C17_FirstStringPath ==
  (arg.fn = "send_message" /\ ret # NotEvaluated) =>
    LET candidates == IF arg.endpoint THEN EndpointPaths \o SessionPaths ELSE SessionPaths
        hits == {i \in 1..Len(candidates) : IsStr(Traverse(arg.data, candidates[i]))}
    IN  ret = Returns(IF hits = {} THEN Text(arg.data)
                      ELSE Traverse(arg.data, candidates[Least(hits)]))

\* C17 witness: in direct-endpoint mode choices[0].message.content is no
\* string while choices[0].text and message.content are, and the reply is
\* choices[0].text.
C17_Witness ==
  /\ arg.fn = "send_message" /\ arg.endpoint
  /\ Traverse(arg.data, <<"choices", "[0]", "message", "content">>) = Num(1)
  /\ IsStr(Traverse(arg.data, <<"choices", "[0]", "text">>))
  /\ IsStr(Traverse(arg.data, <<"message", "content">>))
  /\ ret = Returns(Str("choices[0].text"))

\* C18: a call whose _request_with_retries returned a response with a status
\* outside 2xx (a 429 once the retries are used up, any other error status at
\* once) ends at the facade raising DigitalOceanAgentError with that status
\* and the body; it returns neither a handle nor an AgentResponse.
C18_ErrorStatusRaised ==
  \A c \in Callers :
    (pc[c] = "done" /\ result[c] = "returned"
       /\ last_resp[c].status \in {TooManyRequests} \cup 400..599) =>
      /\ "returns" \notin DOMAIN FacadeEnd(c)
      /\ FacadeEnd(c).raises = "DigitalOceanAgentError"
      /\ FacadeEnd(c).status = last_resp[c].status
      /\ FacadeEnd(c).detail = "_safe_json(response)"

\* C18 witness: a send_message got a 429 on its last allowed retry, and its
\* facade call raised DigitalOceanAgentError with status 429.
C18_Witness ==
  \E c \in Callers :
    /\ op[c] = "send_message" /\ pc[c] = "done" /\ result[c] = "returned"
    /\ max_retries >= 1 /\ attempt[c] = max_retries
    /\ last_resp[c].status = TooManyRequests
    /\ FacadeEnd(c).raises = "DigitalOceanAgentError"
    /\ FacadeEnd(c).status = TooManyRequests

\* C19, as stated: whenever the client raises a fault while forward_message
\* handles a text (from create_session, called for want of a stored session,
\* or from send_message), the user is sent the generic apology.
C19_Original ==
  (arg.fn = "forward_message" /\ ret # NotEvaluated) =>
    (((~arg.stored /\ arg.create \in ClientFaults)
        \/ ((arg.stored \/ arg.create = "ok") /\ ~arg.empty /\ arg.send \in ClientFaults))
      => ret.reply = "apology")

\* C19 witness: create_session raised DigitalOceanAgentError for a user without
\* a stored session; the exception left forward_message and nothing was replied.
C19_Witness ==
  /\ arg.fn = "forward_message" /\ ret # NotEvaluated
  /\ ~arg.stored /\ ~arg.empty /\ arg.create = "DigitalOceanAgentError"
  /\ ret.reply = "none" /\ ret.raised = "DigitalOceanAgentError"

\* C20: _lock is taken only when it is free, by a caller that then starts its
\* logical call; its holder gives it up only in the step that ends the call;
\* a call ends only in a step of the holder; every request is issued by the
\* holder, and none while a caller sleeps in its backoff.  So at any time at
\* most one caller is inside a logical call, and the calls end one after the
\* other in the order in which their callers got _lock.
C20_LockForWholeCall ==
  /\ [][/\ \A c \in Callers :
             /\ (lock # c /\ lock' = c) => (lock = NoOne /\ pc'[c] = "acquire")
             /\ (lock = c /\ lock' # c) => (lock' = NoOne /\ pc'[c] = "done")
             /\ (pc[c] \in InCall /\ pc'[c] \notin InCall) => (lock = c /\ pc'[c] = "done")
             /\ pc[c] = "backoff" => requests' = requests
         /\ requests' # requests =>
              (requests' = Append(requests, lock) /\ lock' = lock /\ lock # NoOne)]_vars
  /\ [](Cardinality({c \in Callers : pc[c] \in InCall}) <= 1)

\* C20 witness: the first caller's call went through a failed attempt, a
\* backoff and a retry, and only after its end did the second caller issue
\* its request.
C20_Witness ==
  \E c, d \in Callers :
    /\ c # d
    /\ pc[c] = "done" /\ attempt[c] >= 1
    /\ requests = <<c, c, d>>
    /\ pc[d] = "in_flight" /\ lock = d
    /\ now >= BaseBackoff * 2

\* C21: whatever mix of 429s and transport errors the attempts of a call get,
\* for max_retries = 0 as for max_retries > 0: the call issues at most
\* max_retries + 1 requests; its loop variable never passes max_retries; it
\* sleeps a backoff only with an attempt left; the attempt numbered
\* max_retries ends the call in the step that handles its outcome; the call
\* ends with a returned response or a raised transport error, and never by
\* falling through the loop to the RuntimeError of line 227.
C21_AttemptsBounded ==
  /\ [][\A c \in Callers :
            (Handled(c) /\ attempt[c] = max_retries) =>
              (pc'[c] = "done" /\ result'[c] \in {"returned", "raised"})]_vars
  /\ [](\A c \in Callers :
          /\ Count(requests, c) <= max_retries + 1
          /\ attempt[c] <= max_retries
          /\ pc[c] = "backoff" => attempt[c] < max_retries
          /\ result[c] # "fell_through"
          /\ (pc[c] = "done" /\ Count(requests, c) > 0) =>
               /\ result[c] \in {"returned", "raised"}
               /\ result[c] = "raised" <=> last_resp[c].kind = "error")

\* C21 witness: a call whose first attempt failed in the transport and whose
\* last allowed attempt got a 429 ended returning that response, after
\* max_retries + 1 requests.
C21_Witness ==
  \E c \in Callers :
    /\ max_retries >= 1
    /\ pc[c] = "done" /\ result[c] = "returned"
    /\ last_exc[c] /\ last_resp[c].status = TooManyRequests
    /\ attempt[c] = max_retries
    /\ Count(requests, c) = max_retries + 1

\* C22: the 429 of a call's last allowed attempt, which is returned to the
\* caller, registers its violation like any other: when its effective hint
\* (the hint or, for a missing or zero hint, the default) is positive, the
\* step that ends the call leaves the bucket empty, refilled as of now, and
\* cooldown_until at now + hint or later.  No request, of the next caller or
\* of any other, is issued before cooldown_until, nor before now + hint of
\* any violation registered so far.
C22_LastViolationCounts ==
  [][/\ \A c \in Callers :
          (Handled429(c) /\ pc'[c] = "done" /\ HintOrDefault(last_hint') > 0) =>
            /\ attempt[c] = max_retries /\ result'[c] = "returned"
            /\ cooldown_until' >= now + HintOrDefault(last_hint')
            /\ cooldown_until' >= cooldown_until
            /\ resume_max' >= now + HintOrDefault(last_hint')
            /\ tokens' = 0 /\ last_refill' = now
     /\ requests' # requests => (now >= cooldown_until /\ now >= resume_max)]_vars

\* C22 witness: the first caller's call ended on the 429 of its last allowed
\* attempt, with a positive hint; the second caller's first request went out
\* at the time the cooldown ended, not before.
C22_Witness ==
  \E c, d \in Callers :
    /\ c # d
    /\ pc[c] = "done" /\ result[c] = "returned"
    /\ last_resp[c].status = TooManyRequests /\ attempt[c] = max_retries
    /\ last_hint # None /\ last_hint > 0
    /\ requests = <<c, d>>
    /\ pc[d] = "in_flight" /\ attempt[d] = 0
    /\ cooldown_until = last_hint
    /\ now = cooldown_until

\* C23: a violation registered at time t0 with a positive effective wait
\* leaves the bucket empty with last_refill = t0 < cooldown_until, and until
\* the first pass of _acquire_token at a time t >= cooldown_until nothing but
\* a further violation touches the bucket.  That pass finds
\* min(burst, rate * (t - t0)) tokens: it debits one at once when that is a
\* whole token or more, and sleeps otherwise.  A pass at the time of the last
\* refill debits from what is left without a wait, so the whole tokens found
\* at the end of the cooldown admit as many requests at that same time.
AwaitsRefill == last_refill < cooldown_until
PassAfterCooldown == \E c \in Callers : AcquirePass(c) /\ now >= cooldown_until
C23_CooldownCountsAsRefill ==
  [][/\ \A c \in Callers :
          (Handled429(c) /\ HintOrDefault(last_hint') > 0) =>
            (tokens' = 0 /\ last_refill' = now /\ last_refill' < cooldown_until')
     /\ AwaitsRefill =>
          /\ tokens = 0
          /\ IF PassAfterCooldown
               THEN LET held == Min(Capacity, RateQps * (now - last_refill))
                    IN  /\ last_refill' = now
                        /\ Debited <=> held >= TokenScale
                        /\ tokens' = IF held >= TokenScale THEN held - TokenScale ELSE held
               ELSE (\E c \in Callers : Handled429(c)) \/ UNCHANGED <<tokens, last_refill>>
     /\ (PassAfterCooldown /\ last_refill = now) =>
          /\ Debited <=> tokens >= TokenScale
          /\ tokens' = IF tokens >= TokenScale THEN tokens - TokenScale ELSE tokens]_vars

\* C23 witness: a violation at time 0 emptied a bucket of burst MaxBurst; the
\* next caller slept through the cooldown and, at its end, found the refill
\* of the whole interval, more than one token, and was admitted at once.
C23_Witness ==
  \E c, d \in Callers :
    /\ c # d
    /\ rate_burst = MaxBurst
    /\ pc[c] = "done" /\ last_resp[c].status = TooManyRequests
    /\ debits = <<c, d>>
    /\ pc[d] = "send"
    /\ cooldown_until = MaxHint
    /\ last_refill = now /\ now = cooldown_until
    /\ tokens = Min(Capacity, RateQps * cooldown_until) - TokenScale
    /\ tokens > 0

=============================================================================
